---- MODULE Spec2Model ----
(***************************************************************************)
(* The synthetic order generator of the Instamart profitability engine     *)
(* (data_pipeline/instamart_unit_economics_gen.py) and the loader of the   *)
(* dashboard that reads its output (app/swiggy_dashboard.py).              *)
(*                                                                         *)
(* Units.  order_value and contribution_margin are amounts with two        *)
(* decimals and are kept in paise (hundredths of a rupee); delivery_cost   *)
(* and discount are whole rupees, as in the code.  A datetime is the       *)
(* number of minutes since start_date, 2025-01-01 00:00.  A probability    *)
(* vector is a sequence of numerators over one common denominator.         *)
(***************************************************************************)
EXTENDS Integers, Sequences, FiniteSets, TLC

\* ------------------------------------------------------------ bounds
\* Largest order count n handed to generate_swiggy_data.
MaxN == 3
\* An unseeded numpy generator starts from one of MaxNpEntropy + 1 states,
\* an unseeded standard-library generator from one of MaxPyEntropy + 1.
MaxNpEntropy == 31
MaxPyEntropy == 127
\* The file a consumer script (forecaster, dashboard) reads was written by a
\* generator run whose two generators each started from one of
\* MaxFileEntropy + 1 states.
MaxFileEntropy == 15

\* ------------------------------------------------------------ configuration
zones == <<"Indiranagar", "Koramangala", "HSR Layout", "Whitefield", "Jayanagar">>
weather_options == <<"Clear", "Rainy", "Cloudy">>
item_categories == <<"Perishable", "Snacks", "Home Needs", "Beverages">>

\* ------------------------------------------------------------ helpers
RECURSIVE SumSeq(_)
SumSeq(s) == IF s = <<>> THEN 0 ELSE Head(s) + SumSeq(Tail(s))

Rep(x, k) == [j \in 1..k |-> x]

Range(s) == {s[k] : k \in 1..Len(s)}

\* ------------------------------------------------------------ generators
\* The state space of a pseudo-random generator.  Both numpy's and the
\* standard library's generator are deterministic machines: a draw is a
\* function of the state, and the state steps once per draw.
RngMod == 4096

RngStep(s) == (1229 * s + 1) % RngMod

\* np.random.seed(x) and random.seed(x) fold the seed into a state, each in
\* its own way.
NpSeedState(x) == (677 * x + 91) % RngMod
PySeedState(x) == (2731 * x + 1523) % RngMod

\* random.randint(a, b): uniform on a..b.
PyRandint(s, a, b) == a + (s * (b - a + 1)) \div RngMod

\* random.choice(seq): uniform on the slots of seq.
PyChoice(s, seq) == seq[1 + (s * Len(seq)) \div RngMod]

\* round(random.uniform(a, b), 2) for whole rupees a, b: the result in paise.
PyUniformRound2(s, a, b) == 100 * a + (2 * 100 * (b - a) * s + RngMod) \div (2 * RngMod)

\* The sum of a probability vector is 1 (np.random.choice refuses p otherwise).
SumsToOne(p) == SumSeq(p.num) = p.den

\* np.random.choice(a, p=p): the first slot whose cumulative probability
\* exceeds the uniform draw s / RngMod.
NpChoice(s, a, p) ==
    a[CHOOSE k \in 1..Len(a) :
        /\ SumSeq(SubSeq(p.num, 1, k)) * RngMod > s * p.den
        /\ \A j \in 1..(k - 1) : SumSeq(SubSeq(p.num, 1, j)) * RngMod <= s * p.den]

\* ------------------------------------------------------------ the generator's formulas
\* The overnight weight typed as the afternoon's: [0.03]*7 for [0.01]*7.
RawProbsOvernightRaised ==
    [num |-> Rep(3, 7) \o Rep(4, 5) \o Rep(3, 5) \o Rep(11, 5) \o Rep(2, 2),
     den |-> 100]

\* probs = np.array([0.01]*7 + [0.04]*5 + [0.03]*5 + [0.11]*5 + [0.02]*2)
RawProbs ==
    [num |-> Rep(1, 7) \o Rep(4, 5) \o Rep(3, 5) \o Rep(11, 5) \o Rep(2, 2),
     den |-> 100]

\* probs /= probs.sum(): every entry divided by the sum of the entries.
Normalize(p) == [num |-> p.num, den |-> SumSeq(p.num)]

\* p=[0.7, 0.15, 0.15]
WeatherProbs == [num |-> <<70, 15, 15>>, den |-> 100]

HourRange == [k \in 1..24 |-> k - 1]

\* The ids counted from 100001.
OrderIdFromOne(k) == 100000 + k + 1

OrderId(k) == 100000 + k

\* start_date + timedelta(days, hours, minutes), in minutes since start_date.
OrderTime(days, hours, minutes) == days * 1440 + hours * 60 + minutes

\* The penalty applied in any weather but Clear.
DeliveryTimeNotClear(base_delivery, weather) ==
    base_delivery + (IF weather # "Clear" THEN 15 ELSE 0)

DeliveryTime(base_delivery, weather) ==
    base_delivery + (IF weather = "Rainy" THEN 15 ELSE 0)

\* The threshold typed as 20.
DeliveryCostLowThreshold(delivery_time) == 40 + (IF delivery_time > 20 THEN 5 ELSE 0)

\* The threshold taken as inclusive.
DeliveryCostInclusive(delivery_time) == 40 + (IF delivery_time >= 30 THEN 5 ELSE 0)

DeliveryCost(delivery_time) == 40 + (IF delivery_time > 30 THEN 5 ELSE 0)

\* One of the zero slots edited into a 50.
DiscountSlotsEdited == <<0, 0, 50, 50, 100>>

DiscountSlots == <<0, 0, 0, 50, 100>>

\* The sentinel given to Perishable orders and the draw to the others.
FreshnessHrsInverted(category, s) ==
    IF category # "Perishable" THEN PyRandint(s, 1, 48) ELSE 500

\* int(random.randint(1, 48) if category == 'Perishable' else 500): the
\* draw is made, and the generator stepped, only for a Perishable order.
FreshnessHrs(category, s) ==
    IF category = "Perishable" THEN PyRandint(s, 1, 48) ELSE 500

\* The zone column under another name.
columnsZoneRenamed ==
    <<"order_id", "order_time", "area", "category", "order_value",
      "delivery_time_mins", "weather", "delivery_cost", "discount",
      "freshness_hrs_left">>

columns ==
    <<"order_id", "order_time", "zone", "category", "order_value",
      "delivery_time_mins", "weather", "delivery_cost", "discount",
      "freshness_hrs_left">>

\* The discount added instead of subtracted.
ContributionMarginAddsDiscount(order_value, delivery_cost, discount) ==
    order_value - 100 * delivery_cost + 100 * discount

\* order_value in paise, delivery_cost and discount in rupees; result in paise.
ContributionMargin(order_value, delivery_cost, discount) ==
    order_value - 100 * delivery_cost - 100 * discount

\* ------------------------------------------------------------ tables
NoFrame == [columns |-> <<>>, rows |-> <<>>]

HasCol(frame, name) == name \in Range(frame.columns)

ColIndex(frame, name) == CHOOSE k \in 1..Len(frame.columns) : frame.columns[k] = name

Cell(frame, r, name) == frame.rows[r][ColIndex(frame, name)]

\* frame[name] = f, one value per row: a new last column, or the old column
\* overwritten.
SetCol(frame, name, f) ==
    IF HasCol(frame, name)
    THEN [frame EXCEPT !.rows =
            [r \in 1..Len(frame.rows) |->
                [frame.rows[r] EXCEPT ![ColIndex(frame, name)] = f[r]]]]
    ELSE [columns |-> Append(frame.columns, name),
          rows |-> [r \in 1..Len(frame.rows) |-> Append(frame.rows[r], f[r])]]

\* ------------------------------------------------------------ state
VARIABLES
    pc,         \* position of the generator script
    n,          \* num_orders, the argument of generate_swiggy_data
    i,          \* loop counter: orders generated so far
    np_state,   \* state of numpy's global generator
    py_state,   \* state of the standard library's global generator
    probs,      \* the hour-of-day probability vector (a local)
    loc,        \* the locals of the latest loop iteration
    data,       \* the list of rows
    df,         \* the DataFrame
    csv,        \* swiggy_simulated_data.csv
    run,        \* which execution of the script this is
    first_csv,  \* the file the previous execution left
    dash,       \* the dashboard's enriched table
    dash_status, \* idle | loaded | stopped | KeyError
    fc_pc,      \* position of the forecaster script
    ts_data,    \* the forecaster's hourly buckets, with their features
    train,      \* the forecaster's training rows
    test,       \* the forecaster's holdout rows
    sel_zones,  \* the dashboard's zones: the selected geographic clusters
    weather_filter, \* the dashboard's selected weather conditions
    levers,     \* fee_adj, disc_opt, scenario, aov_boost, marketing_spend
    f_df        \* the dashboard's simulated order set

fc_vars == <<fc_pc, ts_data, train, test>>

sim_vars == <<sel_zones, weather_filter, levers, f_df>>

vars == <<pc, n, i, np_state, py_state, probs, loc, data, df, csv, run,
          first_csv, dash, dash_status, fc_vars, sim_vars>>

NoLocals ==
    [hour |-> 0, weather |-> "", base_delivery |-> 0, category |-> "",
     discount |-> 0]

\* A generator nobody seeded starts from a state the operating system's
\* entropy picks.
NpEntropyStates == {NpSeedState(e) : e \in 0..MaxNpEntropy}

PyEntropyStates == {PySeedState(e) : e \in 0..MaxPyEntropy}

\* ------------------------------------------------------------ the generator script
\* random.seed(42) left out: the generator keeps the state it started with.
PySeedMissing(old) == old

\* Lines 7-8: np.random.seed(42); random.seed(42).  Seeding replaces the
\* state the generator had.
NpSeed(old) == NpSeedState(42)

PySeed(old) == PySeedState(42)

SeedSetup ==
    /\ UNCHANGED sim_vars
    /\ UNCHANGED fc_vars
    /\ pc = "seed"
    /\ np_state' = NpSeed(np_state)
    /\ py_state' = PySeed(py_state)
    /\ pc' = "call"
    /\ UNCHANGED <<n, i, probs, loc, data, df, csv, run, first_csv, dash, dash_status>>

\* probs /= probs.sum() left out.
PrologueUnnormalized(raw) == raw

\* Lines 17-22: the prologue of generate_swiggy_data(n).
Prologue(raw) == Normalize(raw)

Call ==
    /\ UNCHANGED sim_vars
    /\ UNCHANGED fc_vars
    /\ pc = "call"
    /\ data' = <<>>
    /\ probs' = Prologue(RawProbs)
    /\ i' = 0
    /\ pc' = "loop"
    /\ UNCHANGED <<n, np_state, py_state, loc, df, csv, run, first_csv, dash, dash_status>>

\* Lines 24-55: one iteration of the loop.
GenerateOrder ==
    /\ UNCHANGED sim_vars
    /\ UNCHANGED fc_vars
    /\ pc = "loop"
    /\ i < n
    /\ IF ~SumsToOne(probs) \/ ~SumsToOne(WeatherProbs)
       THEN \* np.random.choice raises ValueError
            /\ pc' = "ValueError"
            /\ UNCHANGED <<i, np_state, py_state, loc, data>>
       ELSE LET order_id == OrderId(i)
                n1 == RngStep(np_state)
                hour == NpChoice(n1, HourRange, probs)
                p1 == RngStep(py_state)
                days == PyRandint(p1, 0, 30)
                p2 == RngStep(p1)
                minutes == PyRandint(p2, 0, 59)
                order_time == OrderTime(days, hour, minutes)
                p3 == RngStep(p2)
                zone == PyChoice(p3, zones)
                p4 == RngStep(p3)
                category == PyChoice(p4, item_categories)
                p5 == RngStep(p4)
                order_value == PyUniformRound2(p5, 150, 1200)
                n2 == RngStep(n1)
                weather == NpChoice(n2, weather_options, WeatherProbs)
                p6 == RngStep(p5)
                base_delivery == PyRandint(p6, 10, 25)
                delivery_time == DeliveryTime(base_delivery, weather)
                delivery_cost == DeliveryCost(delivery_time)
                p7 == RngStep(p6)
                discount == PyChoice(p7, DiscountSlots)
                p8 == IF category = "Perishable" THEN RngStep(p7) ELSE p7
                freshness_hrs == FreshnessHrs(category, p8)
            IN  /\ data' = Append(data,
                        <<order_id, order_time, zone, category, order_value,
                          delivery_time, weather, delivery_cost, discount,
                          freshness_hrs>>)
                /\ loc' = [hour |-> hour, weather |-> weather,
                           base_delivery |-> base_delivery,
                           category |-> category, discount |-> discount]
                /\ np_state' = n2
                /\ py_state' = p8
                /\ i' = i + 1
                /\ pc' = "loop"
    /\ UNCHANGED <<n, probs, df, csv, run, first_csv, dash, dash_status>>

\* Lines 57-66: the DataFrame and its contribution_margin column.
BuildFrame ==
    /\ UNCHANGED sim_vars
    /\ UNCHANGED fc_vars
    /\ pc = "loop"
    /\ i = n
    /\ LET frame == [columns |-> columns, rows |-> data]
           margin == [r \in 1..Len(data) |->
                        ContributionMargin(Cell(frame, r, "order_value"),
                                           Cell(frame, r, "delivery_cost"),
                                           Cell(frame, r, "discount"))]
       IN  df' = SetCol(frame, "contribution_margin", margin)
    /\ pc' = "save"
    /\ UNCHANGED <<n, i, np_state, py_state, probs, loc, data, csv, run,
                   first_csv, dash, dash_status>>

\* Line 75: df.to_csv('swiggy_simulated_data.csv', index=False).  A datetime is
\* written as its calendar fields; every order falls in January 2025.
Strftime(t) == <<2025, 1, 1 + t \div 1440, (t % 1440) \div 60, t % 60>>

ToCsvFile(frame) ==
    IF HasCol(frame, "order_time")
    THEN LET text == [r \in 1..Len(frame.rows) |->
                         Strftime(Cell(frame, r, "order_time"))]
         IN  SetCol(frame, "order_time", text)
    ELSE frame

ToCsv ==
    /\ UNCHANGED sim_vars
    /\ UNCHANGED fc_vars
    /\ pc = "save"
    /\ csv' = ToCsvFile(df)
    /\ pc' = "done"
    /\ UNCHANGED <<n, i, np_state, py_state, probs, loc, data, df, run,
                   first_csv, dash, dash_status>>

\* The script is executed once more, as a new process: its generators start
\* unseeded, and the file of the previous execution is still on disk.
Rerun ==
    /\ UNCHANGED sim_vars
    /\ UNCHANGED fc_vars
    /\ pc = "done"
    /\ run = 1
    /\ run' = 2
    /\ first_csv' = csv
    /\ np_state' \in NpEntropyStates
    /\ py_state' \in PyEntropyStates
    /\ pc' = "seed"
    /\ i' = 0
    /\ probs' = [num |-> <<>>, den |-> 1]
    /\ loc' = NoLocals
    /\ data' = <<>>
    /\ df' = NoFrame
    /\ UNCHANGED <<n, csv, dash, dash_status>>

\* ------------------------------------------------------------ the dashboard's loader
\* The columns of the loaded table that the dashboard reads and does not
\* create itself.
DashboardReads ==
    {"order_time", "order_value", "delivery_fee", "delivery_cost", "discount",
     "zone", "weather", "category", "freshness_hrs_left"}

\* The defaults of load_and_enrich, in dictionary order (order_value in paise).
required ==
    <<<<"delivery_fee", 15>>, <<"delivery_cost", 40>>, <<"discount", 20>>,
      <<"order_value", 45000>>, <<"category", "FMCG">>,
      <<"freshness_hrs_left", 24>>>>

RECURSIVE AddDefaults(_, _)
AddDefaults(frame, req) ==
    IF req = <<>> THEN frame
    ELSE LET col == Head(req)[1]
             val == [r \in 1..Len(frame.rows) |-> Head(req)[2]]
         IN  AddDefaults(IF HasCol(frame, col) THEN frame ELSE SetCol(frame, col, val),
                         Tail(req))

\* pd.to_datetime of the calendar fields to_csv wrote.
ToDatetime(c) == (c[3] - 1) * 1440 + c[4] * 60 + c[5]

\* Lines 88-94.  commission, ad_revenue and gross_margin are in hundredths
\* of a paisa, opex in rupees.
Enrich(frame) ==
    LET rows == 1..Len(frame.rows)
        time == [r \in rows |-> ToDatetime(Cell(frame, r, "order_time"))]
        f1 == SetCol(frame, "order_time", time)
        commission == [r \in rows |-> Cell(f1, r, "order_value") * 18]
        f2 == SetCol(f1, "commission", commission)
        ad_revenue == [r \in rows |-> Cell(f2, r, "order_value") * 5]
        f3 == SetCol(f2, "ad_revenue", ad_revenue)
        opex == [r \in rows |-> 12]
        f4 == SetCol(f3, "opex", opex)
        gross_margin == [r \in rows |->
            (Cell(f4, r, "commission") + Cell(f4, r, "ad_revenue")
               + 10000 * Cell(f4, r, "delivery_fee"))
            - 10000 * (Cell(f4, r, "delivery_cost") + Cell(f4, r, "discount")
                         + Cell(f4, r, "opex"))]
    IN  SetCol(f4, "gross_margin", gross_margin)

\* Lines 75-95: load_and_enrich().
LoadAndEnrich ==
    /\ UNCHANGED sim_vars
    /\ UNCHANGED fc_vars
    /\ dash_status = "idle"
    /\ IF csv = NoFrame
       THEN \* the file does not exist: st.error, st.stop
            /\ dash_status' = "stopped"
            /\ dash' = dash
       ELSE LET loaded == AddDefaults(csv, required)
            IN  IF ~HasCol(loaded, "order_time")
                THEN /\ dash_status' = "KeyError"
                     /\ dash' = dash
                ELSE /\ dash_status' = "loaded"
                     /\ dash' = Enrich(loaded)
    /\ UNCHANGED <<pc, n, i, np_state, py_state, probs, loc, data, df, csv,
                   run, first_csv>>

\* ------------------------------------------------------------ the dashboard's simulation
\* The sliders and the scenario box at their defaults (lines 122-130).
DefaultLevers ==
    [fee_adj |-> 5, disc_opt |-> 20, scenario |-> "Normal Operations",
     aov_boost |-> 0, marketing_spend |-> 0]

\* The settings of the levers the user is taken to choose among: the
\* defaults, every slider at its upper end under Heavy Rain, every slider at
\* its lower end on an IPL Match Night.
LeverSettings ==
    {DefaultLevers,
     [fee_adj |-> 50, disc_opt |-> 100, scenario |-> "Heavy Rain",
      aov_boost |-> 100, marketing_spend |-> 50000],
     [fee_adj |-> 0, disc_opt |-> 0, scenario |-> "IPL Match Night",
      aov_boost |-> 0, marketing_spend |-> 0]}

\* frame[name].unique()
Unique(frame, name) == {Cell(frame, r, name) : r \in 1..Len(frame.rows)}

\* Lines 100-134: the sidebar.  Each multiselect offers the values of its
\* column and returns the subset the user leaves selected.
Sidebar ==
    /\ dash_status = "loaded"
    /\ IF ~HasCol(dash, "zone") \/ ~HasCol(dash, "weather")
       THEN /\ dash_status' = "KeyError"
            /\ UNCHANGED <<sel_zones, weather_filter, levers>>
       ELSE /\ sel_zones' \in SUBSET Unique(dash, "zone")
            /\ weather_filter' \in SUBSET Unique(dash, "weather")
            /\ levers' \in LeverSettings
            /\ dash_status' = "selected"
    /\ UNCHANGED <<pc, n, i, np_state, py_state, probs, loc, data, df, csv,
                   run, first_csv, dash, fc_vars, f_df>>

\* df[df['zone'].isin(selected)]
ZoneIsin(frame, selected) ==
    [columns |-> frame.columns,
     rows |-> SelectSeq(frame.rows,
                        LAMBDA row : row[ColIndex(frame, "zone")] \in selected)]

\* Lines 137-155: the simulation engine.  In f_df delivery_fee and opex stay
\* in rupees, discount and delivery_cost are in paise, order_value in
\* hundredths of a paisa, commission and net_profit in millionths of a rupee;
\* ad_revenue keeps the loader's hundredths of a paisa.
\* weather_selected is never read: line 137 filters on the zone alone, and
\* no later line mentions weather_filter.
SimulationEngine(frame, selected, weather_selected, lv) ==
    LET f0 == ZoneIsin(frame, selected)
        rows == 1..Len(f0.rows)
        f1 == SetCol(f0, "delivery_fee",
                     [r \in rows |-> Cell(f0, r, "delivery_fee") + lv.fee_adj])
        f2 == SetCol(f1, "discount",
                     [r \in rows |-> Cell(f1, r, "discount") * (100 - lv.disc_opt)])
        f3 == SetCol(f2, "delivery_cost",
                     [r \in rows |->
                        Cell(f2, r, "delivery_cost")
                          * (IF lv.scenario = "Heavy Rain" THEN 130 ELSE 100)])
        f4 == SetCol(f3, "order_value",
                     [r \in rows |->
                        Cell(f3, r, "order_value")
                          * (IF lv.scenario = "IPL Match Night" THEN 115 ELSE 100)])
        f5 == SetCol(f4, "order_value",
                     [r \in rows |->
                        Cell(f4, r, "order_value") + 10000 * lv.aov_boost
                          + 10 * lv.marketing_spend])
        f6 == SetCol(f5, "commission",
                     [r \in rows |-> Cell(f5, r, "order_value") * 18])
    IN  SetCol(f6, "net_profit",
               [r \in rows |->
                  (Cell(f6, r, "commission") + 100 * Cell(f6, r, "ad_revenue")
                     + 1000000 * Cell(f6, r, "delivery_fee"))
                  - (10000 * Cell(f6, r, "delivery_cost")
                       + 10000 * Cell(f6, r, "discount")
                       + 1000000 * Cell(f6, r, "opex"))])

Simulate ==
    /\ dash_status = "selected"
    /\ f_df' = SimulationEngine(dash, sel_zones, weather_filter, levers)
    /\ dash_status' = "simulated"
    /\ UNCHANGED <<pc, n, i, np_state, py_state, probs, loc, data, df, csv,
                   run, first_csv, dash, fc_vars, sel_zones, weather_filter,
                   levers>>

\* ------------------------------------------------------------ specifications
\* generate_swiggy_data(n) entered with the two generators in any state, the
\* table saved, and the dashboard loading the file.
Init ==
    /\ fc_pc = "start" /\ ts_data = <<>> /\ train = <<>> /\ test = <<>>
    /\ sel_zones = {} /\ weather_filter = {} /\ levers = DefaultLevers /\ f_df = NoFrame
    /\ pc = "call"
    /\ n \in 0..MaxN
    /\ i = 0
    /\ np_state \in NpEntropyStates
    /\ py_state \in PyEntropyStates
    /\ probs = [num |-> <<>>, den |-> 1]
    /\ loc = NoLocals
    /\ data = <<>>
    /\ df = NoFrame
    /\ csv = NoFrame
    /\ run = 1
    /\ first_csv = NoFrame
    /\ dash = NoFrame
    /\ dash_status = "idle"

Next == Call \/ GenerateOrder \/ BuildFrame \/ ToCsv \/ LoadAndEnrich

Spec == Init /\ [][Next]_vars

\* The script as a whole, from its seeding on, executed twice.
InitScript ==
    /\ fc_pc = "start" /\ ts_data = <<>> /\ train = <<>> /\ test = <<>>
    /\ sel_zones = {} /\ weather_filter = {} /\ levers = DefaultLevers /\ f_df = NoFrame
    /\ pc = "seed"
    /\ n \in 0..MaxN
    /\ i = 0
    /\ np_state \in NpEntropyStates
    /\ py_state \in PyEntropyStates
    /\ probs = [num |-> <<>>, den |-> 1]
    /\ loc = NoLocals
    /\ data = <<>>
    /\ df = NoFrame
    /\ csv = NoFrame
    /\ run = 1
    /\ first_csv = NoFrame
    /\ dash = NoFrame
    /\ dash_status = "idle"

NextScript == SeedSetup \/ Call \/ GenerateOrder \/ BuildFrame \/ ToCsv \/ Rerun

SpecSeed == InitScript /\ [][NextScript]_vars

\* ------------------------------------------------------------ the forecaster script
SeqMin(s) == CHOOSE x \in Range(s) : \A y \in Range(s) : x <= y

SeqMax(s) == CHOOSE x \in Range(s) : \A y \in Range(s) : x >= y

\* Only the hours in which an order falls get a bucket (a groupby).
HourlyCountsNoFill(times) ==
    LET hours == {times[r] \div 60 : r \in 1..Len(times)}
        RECURSIVE Sorted(_)
        Sorted(hs) ==
            IF hs = {} THEN <<>>
            ELSE LET h == CHOOSE x \in hs : \A y \in hs : x <= y
                 IN  <<[ds |-> h * 60,
                        y |-> Cardinality({r \in 1..Len(times) : times[r] \div 60 = h})]>>
                       \o Sorted(hs \ {h})
    IN  Sorted(hours)

\* Line 13: df.set_index('order_time').resample('H').size().  One bucket per
\* hour from the hour of the earliest index entry to the hour of the latest,
\* labelled by the start of the hour, holding the number of rows in it.
HourlyCounts(times) ==
    IF times = <<>> THEN <<>>
    ELSE LET first == SeqMin(times) \div 60
             last == SeqMax(times) \div 60
         IN  [k \in 1..(last - first + 1) |->
                [ds |-> (first + k - 1) * 60,
                 y |-> Cardinality({r \in 1..Len(times) :
                                        times[r] \div 60 = first + k - 1})]]

\* Lines 17-22: create_features.  start_date, 2025-01-01, is a Wednesday,
\* day 2 of a week that starts on Monday.
create_features(buckets) ==
    [k \in 1..Len(buckets) |->
        LET ds == buckets[k].ds
            dayofweek == (2 + ds \div 1440) % 7
        IN  [ds |-> ds, y |-> buckets[k].y,
             hour |-> (ds % 1440) \div 60,
             dayofweek |-> dayofweek,
             is_weekend |-> IF dayofweek \in {5, 6} THEN 1 ELSE 0]]

\* s.iloc[:-k]: all rows but the last k; none when there are at most k.
IlocAllButLast(s, k) == IF Len(s) > k THEN SubSeq(s, 1, Len(s) - k) ELSE <<>>

\* s.iloc[-k:]: the last k rows; all of them when there are fewer than k.
IlocLast(s, k) == IF Len(s) > k THEN SubSeq(s, Len(s) - k + 1, Len(s)) ELSE s

\* Lines 9-14: read the file and resample it.
FcLoad ==
    /\ UNCHANGED sim_vars
    /\ fc_pc = "start"
    /\ IF csv = NoFrame
       THEN /\ fc_pc' = "FileNotFoundError"
            /\ ts_data' = ts_data
       ELSE IF ~HasCol(csv, "order_time")
       THEN /\ fc_pc' = "KeyError"
            /\ ts_data' = ts_data
       ELSE LET times == [r \in 1..Len(csv.rows) |->
                            ToDatetime(Cell(csv, r, "order_time"))]
            IN  /\ ts_data' = HourlyCounts(times)
                /\ fc_pc' = "features"
    /\ UNCHANGED <<pc, n, i, np_state, py_state, probs, loc, data, df, csv,
                   run, first_csv, dash, dash_status, train, test>>

\* Line 24: ts_features = create_features(ts_data).
FcFeatures ==
    /\ UNCHANGED sim_vars
    /\ fc_pc = "features"
    /\ ts_data' = create_features(ts_data)
    /\ fc_pc' = "split"
    /\ UNCHANGED <<pc, n, i, np_state, py_state, probs, loc, data, df, csv,
                   run, first_csv, dash, dash_status, train, test>>

\* Lines 28-34: the last 48 rows are the test set, the rows before them the
\* training set.
TrainRows(rows) == IlocAllButLast(rows, 48)

TestRows(rows) == IlocLast(rows, 48)

FcSplit ==
    /\ UNCHANGED sim_vars
    /\ fc_pc = "split"
    /\ train' = TrainRows(ts_data)
    /\ test' = TestRows(ts_data)
    /\ fc_pc' = "fit"
    /\ UNCHANGED <<pc, n, i, np_state, py_state, probs, loc, data, df, csv,
                   run, first_csv, dash, dash_status, ts_data>>

\* Lines 37-38: the regressor is built and model.fit(X_train, y_train) is
\* called, whatever the split gave.
FcFit ==
    /\ UNCHANGED sim_vars
    /\ fc_pc = "fit"
    /\ fc_pc' = "fitting"
    /\ UNCHANGED <<pc, n, i, np_state, py_state, probs, loc, data, df, csv,
                   run, first_csv, dash, dash_status, ts_data, train, test>>

\* The generator writes the file and the forecaster reads it.
InitFile ==
    /\ Init
    /\ np_state \in {NpSeedState(e) : e \in 0..MaxFileEntropy}
    /\ py_state \in {PySeedState(e) : e \in 0..MaxFileEntropy}

NextForecast ==
    Call \/ GenerateOrder \/ BuildFrame \/ ToCsv
      \/ FcLoad \/ FcFeatures \/ FcSplit \/ FcFit

SpecForecast == InitFile /\ [][NextForecast]_vars

\* The generator writes the file and the dashboard loads, filters and
\* simulates it.
NextDash ==
    Call \/ GenerateOrder \/ BuildFrame \/ ToCsv
      \/ LoadAndEnrich \/ Sidebar \/ Simulate

SpecDash == InitFile /\ [][NextDash]_vars

\* ------------------------------------------------------------ properties
Built == pc \in {"save", "done"}

OrderRows == 1..Len(df.rows)

\* C1: for every order of the table generate_swiggy_data returns,
\* contribution_margin is order_value - delivery_cost - discount of that same
\* row, exactly (order_value a fixed-point amount with two decimals).
C1_MarginIdentity ==
    \A r \in OrderRows :
        Cell(df, r, "contribution_margin")
            = Cell(df, r, "order_value") - 100 * Cell(df, r, "delivery_cost")
                - 100 * Cell(df, r, "discount")

\* A table of two orders with different discounts, one of them discounted.
C1_Witness ==
    /\ Built
    /\ \E r1, r2 \in OrderRows :
        /\ Cell(df, r1, "discount") > 0
        /\ Cell(df, r2, "discount") # Cell(df, r1, "discount")
        /\ Cell(df, r1, "contribution_margin")
             < Cell(df, r1, "order_value") - 100 * Cell(df, r1, "delivery_cost")

\* C2: the order_id values of one call are pairwise distinct and are
\* 100000 .. 100000 + n - 1, assigned in increasing order of row position.
C2_OrderIds ==
    /\ pc = "loop" =>
        /\ Len(data) = i
        /\ \A r \in 1..Len(data) : data[r][1] = 100000 + r - 1
    /\ Built =>
        /\ Len(df.rows) = n
        /\ \A r \in OrderRows : Cell(df, r, "order_id") = 100000 + r - 1
        /\ \A r1, r2 \in OrderRows :
            r1 < r2 => Cell(df, r1, "order_id") < Cell(df, r2, "order_id")
        /\ {Cell(df, r, "order_id") : r \in OrderRows} = 100000..(100000 + n - 1)

C2_Witness == pc = "done" /\ n >= 3 /\ Len(df.rows) = n

\* C3: the returned table has exactly n rows and exactly the 11 columns
\* order_id .. contribution_margin in that order, whatever n and the draws;
\* every column the dashboard reads without supplying a default
\* (order_time, zone, weather) is among them, so its loader raises no
\* KeyError.
C3_Shape ==
    /\ Built =>
        /\ Len(df.rows) = n
        /\ df.columns =
            <<"order_id", "order_time", "zone", "category", "order_value",
              "delivery_time_mins", "weather", "delivery_cost", "discount",
              "freshness_hrs_left", "contribution_margin">>
        /\ \A r \in OrderRows : Len(df.rows[r]) = 11
        /\ DashboardReads \ {required[k][1] : k \in 1..Len(required)}
             = {"order_time", "zone", "weather"}
        /\ \A c \in DashboardReads \ {required[k][1] : k \in 1..Len(required)} :
             HasCol(df, c)
    /\ pc = "done" => csv.columns = df.columns /\ Len(csv.rows) = n
    /\ dash_status # "KeyError"

C3_Witness ==
    /\ pc = "done"
    /\ n >= 2
    /\ dash_status = "loaded"
    /\ Len(dash.rows) = n
    /\ HasCol(dash, "zone") /\ HasCol(dash, "weather")

\* C4: delivery_time_mins >= 10 for every order, and it is the order's base
\* draw (an integer in 10..25) plus exactly 15 when the weather is Rainy and
\* plus 0 when it is Clear or Cloudy.
C4_DeliveryTime ==
    /\ \A r \in 1..Len(data) : data[r][6] >= 10
    /\ \A r \in OrderRows : Cell(df, r, "delivery_time_mins") >= 10
    /\ (pc = "loop" /\ i >= 1) =>
        /\ loc.base_delivery \in 10..25
        /\ data[i][7] = loc.weather
        /\ loc.weather \in {"Clear", "Rainy", "Cloudy"}
        /\ loc.weather = "Rainy" => data[i][6] = loc.base_delivery + 15
        /\ loc.weather \in {"Clear", "Cloudy"} => data[i][6] = loc.base_delivery

C4_Witness ==
    /\ pc = "loop"
    /\ i >= 2
    /\ loc.weather = "Rainy"
    /\ data[i][6] = loc.base_delivery + 15
    /\ data[i - 1][7] = "Cloudy"

\* C5: delivery_cost is 45 when delivery_time_mins > 30 and 40 otherwise
\* (delivery_time_mins = 30 gives 40); no other delivery_cost occurs.
C5_DeliveryCost ==
    \A r \in OrderRows :
        /\ Cell(df, r, "delivery_cost") \in {40, 45}
        /\ Cell(df, r, "delivery_time_mins") > 30 => Cell(df, r, "delivery_cost") = 45
        /\ Cell(df, r, "delivery_time_mins") <= 30 => Cell(df, r, "delivery_cost") = 40

\* A table with an order delivered in exactly 30 minutes, at 40, and one
\* delivered in 31, at 45.
C5_Witness ==
    /\ Built
    /\ \E r1, r2 \in OrderRows :
        /\ Cell(df, r1, "delivery_time_mins") = 30
        /\ Cell(df, r1, "delivery_cost") = 40
        /\ Cell(df, r2, "delivery_time_mins") = 31
        /\ Cell(df, r2, "delivery_cost") = 45

\* C6: freshness_hrs_left is an integer in 1..48 for a Perishable order and
\* exactly 500 for an order of any other category.
C6_Freshness ==
    \A r \in OrderRows :
        /\ Cell(df, r, "category") \in {"Perishable", "Snacks", "Home Needs", "Beverages"}
        /\ Cell(df, r, "category") = "Perishable"
             => Cell(df, r, "freshness_hrs_left") \in 1..48
        /\ Cell(df, r, "category") # "Perishable"
             => Cell(df, r, "freshness_hrs_left") = 500

\* A table with a Perishable order at the upper end of the range and a
\* Snacks order.
C6_Witness ==
    /\ Built
    /\ \E r1, r2 \in OrderRows :
        /\ Cell(df, r1, "category") = "Perishable"
        /\ Cell(df, r1, "freshness_hrs_left") = 48
        /\ Cell(df, r2, "category") = "Snacks"
        /\ Cell(df, r2, "freshness_hrs_left") = 500

\* C7: every order's discount is one of 0, 50, 100: it is a slot of a
\* five-slot list in which exactly three slots are 0, one is 50 and one is
\* 100.
C7_Discount ==
    /\ Len(DiscountSlots) = 5
    /\ Cardinality({k \in 1..Len(DiscountSlots) : DiscountSlots[k] = 0}) = 3
    /\ Cardinality({k \in 1..Len(DiscountSlots) : DiscountSlots[k] = 50}) = 1
    /\ Cardinality({k \in 1..Len(DiscountSlots) : DiscountSlots[k] = 100}) = 1
    /\ \A r \in 1..Len(data) : data[r][9] \in {0, 50, 100}
    /\ \A r \in OrderRows : Cell(df, r, "discount") \in {0, 50, 100}
    /\ (pc = "loop" /\ i >= 1) => data[i][9] = loc.discount

\* A table in which all three discounts occur.
C7_Witness ==
    /\ Built
    /\ {Cell(df, r, "discount") : r \in OrderRows} = {0, 50, 100}

\* C8: two executions of the script, both generators seeded with 42 and the
\* order count the same, write the same rows, field for field.
C8_SameSeedSameOutput == (pc = "done" /\ run = 2) => csv = first_csv

C8_Witness ==
    /\ pc = "done"
    /\ run = 2
    /\ Len(csv.rows) >= 2
    /\ Len(first_csv.rows) >= 2

PeakHours == (12..16) \cup (19..23)

Mass(p, hours) == SumSeq([k \in 1..24 |-> IF (k - 1) \in hours THEN p.num[k] ELSE 0])

\* C9: under the normalized 24-entry hour-of-day vector, hours 12..16 and
\* 19..23 together carry strictly more probability than the other 14 hours,
\* and the entries sum to exactly 1.
C9_PeakMass ==
    pc \notin {"seed", "call"} =>
        /\ Len(probs.num) = 24
        /\ Mass(probs, PeakHours) > Mass(probs, (0..23) \ PeakHours)
        /\ SumSeq(probs.num) = probs.den
        /\ Mass(probs, PeakHours) + Mass(probs, (0..23) \ PeakHours) = probs.den

\* An order drawn, under the normalized vector, in one of the ten hours.
C9_Witness == pc = "loop" /\ i >= 1 /\ loc.hour \in PeakHours /\ SumSeq(probs.num) = probs.den

\* C10, as stated: every hour in 12..16 or 19..23 carries a weight strictly
\* higher than every hour outside those two windows.
C10_WindowsWeightedUp ==
    pc \notin {"seed", "call"} =>
        \A h \in PeakHours : \A g \in (0..23) \ PeakHours :
            probs.num[h + 1] > probs.num[g + 1]

\* C10, amended: every hour in 12..16 or 19..23 carries a weight strictly
\* higher than every overnight hour 0..6; the strictly highest weight is
\* carried by exactly the hours 17..21, and hours 7..11 outweigh hours 12..16.
C10_WindowsAboveOvernight ==
    pc \notin {"seed", "call"} =>
        /\ \A h \in PeakHours : \A g \in 0..6 : probs.num[h + 1] > probs.num[g + 1]
        /\ \A h \in 17..21 : \A g \in (0..23) \ (17..21) :
            probs.num[h + 1] > probs.num[g + 1]
        /\ \A h \in 7..11 : \A g \in 12..16 : probs.num[h + 1] > probs.num[g + 1]

\* An order drawn in the 12..16 window.
C10_Witness == pc = "loop" /\ i >= 1 /\ loc.hour \in 12..16

\* C14: a delivery_cost of 45 occurs only for Rainy orders: delivery_cost = 45
\* implies weather = Rainy and a base delivery draw >= 16, and every Clear
\* or Cloudy order has delivery_cost = 40 and delivery_time_mins <= 25.
C14_SurchargeOnlyInRain ==
    /\ \A r \in OrderRows :
        /\ Cell(df, r, "delivery_cost") = 45 => Cell(df, r, "weather") = "Rainy"
        /\ Cell(df, r, "weather") \in {"Clear", "Cloudy"} =>
            /\ Cell(df, r, "delivery_cost") = 40
            /\ Cell(df, r, "delivery_time_mins") <= 25
    /\ (pc = "loop" /\ i >= 1) =>
        /\ data[i][8] = 45 => (data[i][7] = "Rainy" /\ loc.base_delivery >= 16)
        /\ data[i][7] \in {"Clear", "Cloudy"} => (data[i][8] = 40 /\ data[i][6] <= 25)

\* A Rainy order at 45 on the smallest base draw that reaches it, after a
\* Clear order delivered in 25 minutes at 40.
C14_Witness ==
    /\ pc = "loop"
    /\ i >= 2
    /\ data[i][7] = "Rainy" /\ loc.base_delivery = 16 /\ data[i][8] = 45
    /\ \E r \in 1..(i - 1) :
        data[r][7] = "Clear" /\ data[r][6] = 25 /\ data[r][8] = 40

Split == fc_pc \in {"fit", "fitting"}

\* C11, as stated: the split is chronological; the test set is exactly the 48
\* most recent hourly buckets, the training set exactly all buckets before
\* them, the two are disjoint and together cover every bucket, and every
\* training bucket is earlier than every test bucket.
C11_ChronologicalSplit ==
    Split =>
        /\ Len(test) = 48
        /\ \A k \in 1..Len(test) : test[k] = ts_data[Len(ts_data) - 48 + k]
        /\ Len(train) = Len(ts_data) - 48
        /\ \A k \in 1..Len(train) : train[k] = ts_data[k]
        /\ {r.ds : r \in Range(train)} \cap {r.ds : r \in Range(test)} = {}
        /\ train \o test = ts_data
        /\ \A a \in Range(train) : \A b \in Range(test) : a.ds < b.ds

\* What the split does give, however many buckets there are: the test set is
\* the last min(48, T) buckets, the training set the buckets before them.
C11_SplitOfAnyLength ==
    Split =>
        /\ Len(test) = (IF Len(ts_data) < 48 THEN Len(ts_data) ELSE 48)
        /\ train \o test = ts_data
        /\ {r.ds : r \in Range(train)} \cap {r.ds : r \in Range(test)} = {}
        /\ \A a \in Range(train) : \A b \in Range(test) : a.ds < b.ds

\* The sum of the counts of buckets lo..hi, by halving.
RECURSIVE CountSum(_, _, _)
CountSum(buckets, lo, hi) ==
    IF lo > hi THEN 0
    ELSE IF lo = hi THEN buckets[lo].y
    ELSE LET mid == (lo + hi) \div 2
         IN  CountSum(buckets, lo, mid) + CountSum(buckets, mid + 1, hi)

\* The orders of the file, as the forecaster reads them.
FileTimes == [r \in 1..Len(csv.rows) |-> ToDatetime(Cell(csv, r, "order_time"))]

\* C12: the hourly aggregation yields one bucket for every hour from the hour
\* of the earliest order to the hour of the latest, with no gaps; a bucket
\* with no orders is present with count 0; each count is the number of
\* orders in that hour, so the counts sum to the number of orders.
C12_HourlyBuckets ==
    fc_pc \in {"features", "split", "fit", "fitting"} =>
        /\ Len(csv.rows) = 0 => ts_data = <<>>
        /\ Len(csv.rows) > 0 =>
            /\ Len(ts_data) = SeqMax(FileTimes) \div 60 - SeqMin(FileTimes) \div 60 + 1
            /\ ts_data[1].ds = 60 * (SeqMin(FileTimes) \div 60)
            /\ ts_data[Len(ts_data)].ds = 60 * (SeqMax(FileTimes) \div 60)
        /\ \A k \in 1..(Len(ts_data) - 1) : ts_data[k + 1].ds = ts_data[k].ds + 60
        /\ \A k \in 1..Len(ts_data) :
            ts_data[k].y = Cardinality({r \in 1..Len(csv.rows) :
                                FileTimes[r] >= ts_data[k].ds
                                /\ FileTimes[r] < ts_data[k].ds + 60})
        /\ CountSum(ts_data, 1, Len(ts_data)) = Len(csv.rows)

\* Three orders aggregated into more than 48 buckets, some of them empty.
C12_Witness ==
    /\ fc_pc = "split"
    /\ Len(csv.rows) = 3
    /\ Len(ts_data) > 48
    /\ \E k \in 1..Len(ts_data) : ts_data[k].y = 0
    /\ \E k \in 2..(Len(ts_data) - 1) : ts_data[k].y >= 1

\* C13: the forecaster never fits its model on an empty training set: when
\* the number of hourly buckets does not exceed the 48-bucket holdout it
\* fails before model fitting.
C13_NoFitOnEmptyTrain ==
    fc_pc = "fitting" => (Len(ts_data) > 48 /\ Len(train) >= 1)

\* C15: the simulated order set f_df respects both sidebar filters: every
\* order in f_df has its zone among the selected zones and its weather among
\* the selected weather conditions, and every loaded order satisfying both
\* is in f_df.
C15_BothFilters ==
    dash_status = "simulated" =>
        /\ \A r \in 1..Len(f_df.rows) :
            /\ Cell(f_df, r, "zone") \in sel_zones
            /\ Cell(f_df, r, "weather") \in weather_filter
        /\ \A r \in 1..Len(dash.rows) :
            (Cell(dash, r, "zone") \in sel_zones
               /\ Cell(dash, r, "weather") \in weather_filter)
              => Cell(dash, r, "order_id") \in Unique(f_df, "order_id")

\* What f_df does respect: the zone filter alone.
C15_ZoneFilterOnly ==
    dash_status = "simulated" =>
        /\ \A r \in 1..Len(f_df.rows) : Cell(f_df, r, "zone") \in sel_zones
        /\ \A r \in 1..Len(dash.rows) :
            Cell(dash, r, "zone") \in sel_zones
              <=> Cell(dash, r, "order_id") \in Unique(f_df, "order_id")

====
